---- MODULE Spec2Model ----
(***************************************************************************)
(* A model of the shadelang code generator                                 *)
(* (src/src/shadelang/compiler.rs): the packing of instructions into       *)
(* 32-bit memory cells, the allocation of global and local symbol offsets, *)
(* the function table, and the lowering of statements and expressions.     *)
(*                                                                         *)
(* codegen reads the syntax tree strictly from left to right, once (the    *)
(* iterators at lines 17, 30, 43 and 48), so the tree is supplied element  *)
(* by element: ast holds the part of the program read so far, and each   *)
(* loop iteration of codegen is one action.                                *)
(* compile's constant folding (constant_folding::fold) runs before codegen *)
(* and is not part of this model: the tree read is the folded one.         *)
(*                                                                         *)
(* TLC's integers are 32-bit signed, so a u32 is kept as its two 16-bit    *)
(* halves [hi, lo] (value hi * 2^16 + lo) and the shifts, the bitwise or   *)
(* and the casts of the source are computed on the halves.                 *)
(***************************************************************************)
EXTENDS Integers, Sequences, FiniteSets, TLC

VARIABLES
    ast,            \* the Program read so far: in_parameters, out_parameters, functions
    pc,             \* codegen's position
    program,        \* VMProgram: code, data
    static_section, \* codegen's local static_section
    func_meta,      \* the FuncMeta of the function being generated
    has_return,     \* codegen's local has_return
    stack_offset,   \* codegen's local stack_offset
    panic,          \* the panic that ended codegen, or NoPanic
    mc_built,       \* MemoryCell under test: how it was built
    mc,             \* MemoryCell under test: the cell
    mc_decoded      \* MemoryCell under test: what get_inst returned

vars == <<ast, pc, program, static_section, func_meta, has_return, stack_offset,
          panic, mc_built, mc, mc_decoded>>

codegen_vars == <<ast, pc, program, static_section, func_meta, has_return,
                  stack_offset, panic>>

cell_vars == <<mc_built, mc, mc_decoded>>

----------------------------------------------------------------------------
(* Bounds of the model. *)

\* The size of the largest program read: two per parameter (its ident and its
\* type_kind), one per function, one per statement and one per expression node.
MaxSize == 7

\* Immediates 0..MaxSmallImm and 65535-MaxSmallImm..65535 are tried, with the powers of two.
MaxSmallImm == 3

----------------------------------------------------------------------------
(* Machine integers. *)

\* The number of values of a u16 (with_data's data: u16, the as u16 casts).
U16Modulus == 65536

\* A u32 as its halves.
U32(hi, lo) == [hi |-> hi, lo |-> lo]

\* x as u32 for a u16 x.
U16AsU32(x) == U32(0, x)

\* w as u16 for a u32 w: the low half.
U32AsU16(w) == w.lo

\* n as u16 for a usize n.
UsizeAsU16(n) == n % U16Modulus

RECURSIVE BitOr16(_, _)
\* a | b on 16-bit values.
BitOr16(a, b) ==
    IF a = 0 THEN b
    ELSE IF b = 0 THEN a
    ELSE (IF (a % 2 = 1) \/ (b % 2 = 1) THEN 1 ELSE 0) + 2 * BitOr16(a \div 2, b \div 2)

\* v | w on u32.
BitOr32(v, w) == U32(BitOr16(v.hi, w.hi), BitOr16(v.lo, w.lo))

\* w << s on u32, 0 <= s < 32.
Shl32(w, s) ==
    IF s >= 16
    THEN U32((w.lo * 2^(s - 16)) % U16Modulus, 0)
    ELSE U32((((w.hi * 2^s) % U16Modulus) + (w.lo \div 2^(16 - s))) % U16Modulus,
             (w.lo * 2^s) % U16Modulus)

\* w >> s on u32, 0 <= s < 32.
Shr32(w, s) ==
    IF s >= 16
    THEN U32(0, w.hi \div 2^(s - 16))
    ELSE U32(w.hi \div 2^s, (w.lo \div 2^s) + (w.hi % 2^s) * 2^(16 - s))

----------------------------------------------------------------------------
(* OpCode and MemoryCell. *)

\* enum OpCode, in declaration order: #[repr(u16)] numbers them from 0.
OpCode ==
    << "AddI32", "SubI32", "MulI32", "DivI32",
       "AddF32", "SubF32", "MulF32", "DivF32",
       "ConstF32", "Void", "Mov4", "Load4", "Mov4Global", "Load4Global",
       "Ret", "Call", "Jmp", "JmpIf" >>

OpCodes == {OpCode[i] : i \in 1..Len(OpCode)}

\* inst as u16.
OpCodeAsU16(inst) == (CHOOSE i \in 1..Len(OpCode) : OpCode[i] = inst) - 1

\* transmute::<u16, OpCode>(t): the opcode numbered t; a t that numbers no
\* opcode is undefined behaviour, and any outcome is possible.
TransmuteOpCode(t) ==
    IF t < Len(OpCode) THEN {OpCode[t + 1]} ELSE OpCodes \cup {"InvalidOpCode"}

\* MemoryCell::raw
raw(data) == [data |-> data]

\* MemoryCell::plain_inst
plain_inst(inst) == [data |-> U16AsU32(OpCodeAsU16(inst))]

\* A with_data that shifts the immediate by 8 instead of 16.
with_data_shift8(inst, data) ==
    [data |-> BitOr32(U16AsU32(OpCodeAsU16(inst)), Shl32(U16AsU32(data), 8))]

\* MemoryCell::with_data
with_data(inst, data) ==
    [data |-> BitOr32(U16AsU32(OpCodeAsU16(inst)), Shl32(U16AsU32(data), 16))]

\* MemoryCell::get_inst: the set of its possible results.
get_inst(cell) ==
    {<<op, U32AsU16(Shr32(cell.data, 16))>> : op \in TransmuteOpCode(U32AsU16(cell.data))}

----------------------------------------------------------------------------
(* The syntax tree (crate::shadelang::ast, as compiler.rs uses it). *)

\* Names of parameters, of assignment targets and of symbol references.
ParamNames == {"x", "y", "z"}
Names == {"x", "y"}
FuncNames == {"f", "g"}

\* A declared type: f32 or a three-component vector.
TypeKindOf(ident) == IF ident = "y" THEN "Vec3" ELSE "F32"

\* The parameter declarations tried: ident and type_kind.
ParamDecls == {[ident |-> n, type_kind |-> TypeKindOf(n)] : n \in ParamNames}

\* A decimal literal is the f64 (-1)^sign * mant * 2^exp, 0 <= mant < 2^24 and the
\* value in f32's range, so that f as f32 is exact. The literal read is 3.5.
DecimalLiterals == { <<"DecimalLiteral", 0, 7, -1>> }

\* The literals read. (A literal of another kind, and a unary operator other
\* than Sub, end generate_expr in unimplemented!(); programs with them are
\* not among those read.)
Literals == DecimalLiterals

BinaryOperators == {"Add", "Sub", "Mul", "Div"}

UnaryOperators == {"Sub"}

\* Expressions of one node: Literal, Symbol, FuncCall (arguments are not lowered).
Atoms ==
    {<<"Literal", l>> : l \in Literals}
    \cup {<<"Symbol", n>> : n \in Names}
    \cup {<<"FuncCall", f>> : f \in FuncNames}

RECURSIVE ExprsOfSize(_)
\* The expressions of exactly n nodes.
ExprsOfSize(n) ==
    IF n <= 0 THEN {}
    ELSE IF n = 1 THEN Atoms
    ELSE {<<"UnaryOp", u, e>> : u \in UnaryOperators, e \in ExprsOfSize(n - 1)}
         \cup UNION { {<<"BinaryOp", op, l, r>> :
                          op \in BinaryOperators,
                          l \in ExprsOfSize(k),
                          r \in ExprsOfSize(n - 1 - k)} : k \in 1..(n - 2) }

\* The expressions by size, up to the largest that fits a program: a function
\* and a statement take two of MaxSize.
Exprs == [n \in 1..(MaxSize - 2) |-> ExprsOfSize(n)]

\* The statements whose expression has n nodes.
AssignmentsOfSize(n) == {<<"Assignment", t, e>> : t \in Names, e \in Exprs[n]}

ReturnsOfSize(n) == {<<"Return", e>> : e \in Exprs[n]}

RECURSIVE ExprSize(_)
ExprSize(e) ==
    IF e[1] = "BinaryOp" THEN 1 + ExprSize(e[3]) + ExprSize(e[4])
    ELSE IF e[1] = "UnaryOp" THEN 1 + ExprSize(e[3])
    ELSE 1

StatementExpr(s) == IF s[1] = "Assignment" THEN s[3] ELSE s[2]

RECURSIVE SumSeq(_)
SumSeq(q) == IF q = <<>> THEN 0 ELSE q[1] + SumSeq(Tail(q))

FunctionSize(f) ==
    1 + SumSeq([i \in 1..Len(f.statements) |->
                    1 + ExprSize(StatementExpr(f.statements[i]))])

\* The size of the program read so far.
ProgramSize(a) ==
    2 * (Len(a.in_parameters) + Len(a.out_parameters))
    + SumSeq([i \in 1..Len(a.functions) |-> FunctionSize(a.functions[i])])

\* The room left for more input.
Room == MaxSize - ProgramSize(ast)

----------------------------------------------------------------------------
(* f32 bit patterns. *)

RECURSIVE HighBit(_)
\* The index of the highest set bit of m > 0.
HighBit(m) == IF m <= 1 THEN 0 ELSE 1 + HighBit(m \div 2)

\* transmute::<f32, u32>(f as f32) for the decimal literal l: sign bit,
\* 8 exponent bits (biased by 127), 23 fraction bits; a value below 2^-126
\* is subnormal (exponent bits 0, fraction in units of 2^-149), and zero
\* (mant = 0) is the sign bit alone: 0x00000000, and 0x80000000 for -0.0.
\* Literals that f as f32 rounds or takes to infinity, and NaN, are outside
\* this encoding of literals.
F32Bits(l) ==
    LET sign == l[2]
        mant == l[3]
        exp  == l[4]
        p    == HighBit(mant)
        e    == p + exp
        normal == e >= -126
        frac == IF normal THEN mant * 2^(23 - p) - 2^23 ELSE mant * 2^(exp + 149)
        biased == IF normal THEN e + 127 ELSE 0
    IN  IF mant = 0
        THEN U32(sign * 2^15, 0)
        ELSE U32(sign * 2^15 + biased * 2^7 + (frac \div U16Modulus), frac % U16Modulus)

\* -1.0
MinusOne == <<"DecimalLiteral", 1, 1, 0>>

----------------------------------------------------------------------------
(* The tables of ProgramData (HashMap<String, _>) as functions. *)

EmptyMap == << >>

\* HashMap::insert: replaces the value of a key already present.
Insert(m, k, v) == [n \in (DOMAIN m) \cup {k} |-> IF n = k THEN v ELSE m[n]]

\* struct SymbolMeta
SymbolMeta(offset, is_static, type_kind) ==
    [offset |-> offset, is_static |-> is_static, type_kind |-> type_kind]

\* FuncMeta::new
FuncMeta_new(address) == [address |-> address, symbols |-> EmptyMap]

\* ProgramData::new
ProgramData_new ==
    [functions |-> EmptyMap, global_symbols |-> EmptyMap,
     min_stack_size |-> 0, static_section_size |-> 0]

\* VMProgram::new
VMProgram_new == [code |-> <<>>, data |-> ProgramData_new]

\* program.code.push(cell)
Push(prog, cell) == [prog EXCEPT !.code = Append(@, cell)]

NoPanic == <<"none">>

----------------------------------------------------------------------------
(* generate_expr *)

Ok(prog) == [program |-> prog, panic |-> NoPanic]

Panicked(prog, why) == [program |-> prog, panic |-> why]

\* A lowering of Sub to the add opcode.
BinaryOpCode_SubAsAdd(op) ==
    CASE op = "Add" -> "AddF32"
      [] op = "Sub" -> "AddF32"
      [] op = "Mul" -> "MulF32"
      [] op = "Div" -> "DivF32"

\* The opcode of a binary operator.
BinaryOpCode(op) ==
    CASE op = "Add" -> "AddF32"
      [] op = "Sub" -> "SubF32"
      [] op = "Mul" -> "MulF32"
      [] op = "Div" -> "DivF32"

\* The operands of a binary operation, right operand first.
BinaryOperands_RightFirst(expr) == <<expr[4], expr[3]>>

\* The operands of a binary operation in the order they are generated.
BinaryOperands(expr) == <<expr[3], expr[4]>>

RECURSIVE generate_expr(_, _, _)
\* generate_expr(program, ast, fnc, expr): the program after it, and the panic
\* that ended it, if any (the instructions pushed before the panic stay
\* pushed). ast is not read.
generate_expr(prog, fnc, expr) ==
    CASE expr[1] = "BinaryOp" ->
            LET r1 == generate_expr(prog, fnc, BinaryOperands(expr)[1])
            IN  IF r1.panic # NoPanic THEN r1
                ELSE LET r2 == generate_expr(r1.program, fnc, BinaryOperands(expr)[2])
                     IN  IF r2.panic # NoPanic THEN r2
                         ELSE Ok(Push(r2.program, plain_inst(BinaryOpCode(expr[2]))))
      [] expr[1] = "FuncCall" ->
            IF expr[2] \in DOMAIN prog.data.functions
            THEN Ok(Push(prog, with_data("Call",
                        UsizeAsU16(prog.data.functions[expr[2]].address))))
            ELSE Panicked(prog, <<"called Option::unwrap() on a None value", expr[2]>>)
      [] expr[1] = "Literal" ->
            IF expr[2][1] = "DecimalLiteral"
            THEN Ok(Push(Push(prog, plain_inst("ConstF32")), raw(F32Bits(expr[2]))))
            ELSE Panicked(prog, <<"not implemented">>)
      [] expr[1] = "Symbol" ->
            IF expr[2] \in DOMAIN fnc.symbols
            THEN Ok(Push(prog, with_data("Load4", UsizeAsU16(fnc.symbols[expr[2]].offset))))
            ELSE IF expr[2] \in DOMAIN prog.data.global_symbols
            THEN Ok(Push(prog, with_data("Load4Global",
                        UsizeAsU16(prog.data.global_symbols[expr[2]].offset))))
            ELSE Panicked(prog, <<"Unknown symbol", expr[2]>>)
      [] expr[1] = "UnaryOp" ->
            IF expr[2] = "Sub"
            THEN LET r == generate_expr(prog, fnc, expr[3])
                 IN  IF r.panic # NoPanic THEN r
                     ELSE Ok(Push(Push(Push(r.program, plain_inst("ConstF32")),
                                       raw(F32Bits(MinusOne))),
                                  plain_inst("MulF32")))
            ELSE Panicked(prog, <<"not implemented">>)
      [] OTHER -> Panicked(prog, <<"not implemented">>)

----------------------------------------------------------------------------
(* codegen *)

\* A table entry whose offset is taken after the increment of static_section.
GlobalSymbol_AfterIncrement(decl, section) == SymbolMeta(section + 4, TRUE, decl.type_kind)

\* The SymbolMeta of a parameter declared when static_section is section.
GlobalSymbol(decl, section) == SymbolMeta(section, TRUE, decl.type_kind)

\* An assignment that never looks its target up among the globals.
AssignsGlobal_Never(prog, ident) == FALSE

\* Whether an assignment to ident stores to a global.
AssignsGlobal(prog, ident) == ident \in DOMAIN prog.data.global_symbols

\* A function end that appends the implicit return whatever has_return is.
ImplicitReturn_Always(prog, returned, offset) ==
    Push(Push(prog, plain_inst("Void")), with_data("Ret", UsizeAsU16(offset)))

\* The implicit return of a function without a return statement.
ImplicitReturn(prog, returned, offset) ==
    IF ~returned
    THEN Push(Push(prog, plain_inst("Void")), with_data("Ret", UsizeAsU16(offset)))
    ELSE prog

\* A function whose address is taken one word late.
FunctionEntry_Late(prog) == FuncMeta_new(Len(prog.code) + 1)

\* The FuncMeta a function's generation begins with.
FunctionEntry(prog) == FuncMeta_new(Len(prog.code))

\* The margin min_stack_size adds to the static section.
StackMargin == 1024

\* The function being read: the last of ast.functions.
CurrentFunction == ast.functions[Len(ast.functions)]

\* ast with statement s read into the current function.
ReadStatement(s) ==
    [ast EXCEPT !.functions[Len(ast.functions)].statements = Append(@, s)]

Init ==
    /\ ast = [in_parameters |-> <<>>, out_parameters |-> <<>>, functions |-> <<>>]
    /\ pc = "in_parameters"
    /\ program = VMProgram_new
    /\ static_section = 0
    /\ func_meta = FuncMeta_new(0)
    /\ has_return = FALSE
    /\ stack_offset = 0
    /\ panic = NoPanic
    /\ mc_built = <<"none">>
    /\ mc = raw(U32(0, 0))
    /\ mc_decoded = <<"none">>

\* One iteration of for i in ast.in_parameters.iter().
codegen_in_parameter ==
    /\ pc = "in_parameters"
    /\ Room >= 2
    /\ \E i \in ParamDecls :
        /\ ast' = [ast EXCEPT !.in_parameters = Append(@, i)]
        /\ program' = [program EXCEPT !.data.global_symbols =
                          Insert(@, i.ident, GlobalSymbol(i, static_section))]
        /\ static_section' = static_section + 4
    /\ UNCHANGED <<pc, func_meta, has_return, stack_offset, panic, cell_vars>>

\* The end of the in-parameter loop.
codegen_in_parameters_end ==
    /\ pc = "in_parameters"
    /\ pc' = "out_parameters"
    /\ UNCHANGED <<ast, program, static_section, func_meta, has_return, stack_offset,
                   panic, cell_vars>>

\* One iteration of for o in ast.out_parameters.iter().
codegen_out_parameter ==
    /\ pc = "out_parameters"
    /\ Room >= 2
    /\ \E o \in ParamDecls :
        /\ ast' = [ast EXCEPT !.out_parameters = Append(@, o)]
        /\ program' = [program EXCEPT !.data.global_symbols =
                          Insert(@, o.ident, GlobalSymbol(o, static_section))]
        /\ static_section' = static_section + 4
    /\ UNCHANGED <<pc, func_meta, has_return, stack_offset, panic, cell_vars>>

\* The end of the out-parameter loop.
codegen_out_parameters_end ==
    /\ pc = "out_parameters"
    /\ pc' = "functions"
    /\ UNCHANGED <<ast, program, static_section, func_meta, has_return, stack_offset,
                   panic, cell_vars>>

\* The head of one iteration of for f in ast.functions.iter().
codegen_function_begin ==
    /\ pc = "functions"
    /\ Room >= 1
    /\ \E ident \in FuncNames :
        ast' = [ast EXCEPT !.functions = Append(@, [ident |-> ident, statements |-> <<>>])]
    /\ func_meta' = FunctionEntry(program)
    /\ has_return' = FALSE
    /\ stack_offset' = 0
    /\ pc' = "statements"
    /\ UNCHANGED <<program, static_section, panic, cell_vars>>

\* Statement::Assignment(i, expr)
codegen_assignment ==
    /\ pc = "statements"
    /\ \E n \in 1..(Room - 1) : \E s \in AssignmentsOfSize(n) :
        /\ ast' = ReadStatement(s)
        /\ LET r == generate_expr(program, func_meta, s[3])
           IN  IF r.panic # NoPanic
               THEN /\ program' = r.program
                    /\ panic' = r.panic
                    /\ pc' = "panicked"
                    /\ UNCHANGED <<func_meta, stack_offset>>
               ELSE IF AssignsGlobal(r.program, s[2])
               THEN /\ program' = Push(r.program, with_data("Mov4Global",
                                    UsizeAsU16(r.program.data.global_symbols[s[2]].offset)))
                    /\ UNCHANGED <<func_meta, stack_offset, panic, pc>>
               ELSE /\ program' = r.program
                    /\ func_meta' = [func_meta EXCEPT !.symbols =
                            Insert(@, s[2], SymbolMeta(stack_offset, FALSE, "F32"))]
                    /\ stack_offset' = stack_offset + 4
                    /\ UNCHANGED <<panic, pc>>
    /\ UNCHANGED <<static_section, has_return, cell_vars>>

\* Statement::Return(expr)
codegen_return ==
    /\ pc = "statements"
    /\ \E n \in 1..(Room - 1) : \E s \in ReturnsOfSize(n) :
        /\ ast' = ReadStatement(s)
        /\ LET r == generate_expr(program, func_meta, s[2])
           IN  IF r.panic # NoPanic
               THEN /\ program' = r.program
                    /\ panic' = r.panic
                    /\ pc' = "panicked"
                    /\ UNCHANGED has_return
               ELSE /\ program' = Push(r.program, with_data("Ret", UsizeAsU16(stack_offset)))
                    /\ has_return' = TRUE
                    /\ UNCHANGED <<panic, pc>>
    /\ UNCHANGED <<static_section, func_meta, stack_offset, cell_vars>>

\* The tail of one iteration of the function loop: the implicit return, and the
\* insertion of the function's FuncMeta into the function table.
codegen_function_end ==
    /\ pc = "statements"
    /\ program' = [ImplicitReturn(program, has_return, stack_offset)
                     EXCEPT !.data.functions = Insert(@, CurrentFunction.ident, func_meta)]
    /\ func_meta' = FuncMeta_new(0)
    /\ has_return' = FALSE
    /\ stack_offset' = 0
    /\ pc' = "functions"
    /\ UNCHANGED <<ast, static_section, panic, cell_vars>>

\* The end of the function loop: the sizes are set and the program returned.
codegen_finish ==
    /\ pc = "functions"
    /\ program' = [program EXCEPT !.data.static_section_size = static_section,
                                  !.data.min_stack_size = static_section + StackMargin]
    /\ pc' = "done"
    /\ UNCHANGED <<ast, static_section, func_meta, has_return, stack_offset, panic,
                   cell_vars>>

Next ==
    \/ codegen_in_parameter
    \/ codegen_in_parameters_end
    \/ codegen_out_parameter
    \/ codegen_out_parameters_end
    \/ codegen_function_begin
    \/ codegen_assignment
    \/ codegen_return
    \/ codegen_function_end
    \/ codegen_finish

Spec == Init /\ [][Next]_vars

----------------------------------------------------------------------------
(* MemoryCell on its own: a cell is built, then decoded. *)

\* The 16-bit immediates tried.
U16Samples ==
    (0..MaxSmallImm)
    \cup {2^k : k \in 0..15}
    \cup {U16Modulus - 1 - i : i \in 0..MaxSmallImm}

\* The raw words tried: the literals' bit patterns, and words whose low half
\* numbers no opcode.
RawWords ==
    {F32Bits(l) : l \in DecimalLiterals
                      \cup {MinusOne, <<"DecimalLiteral", 0, 0, 0>>,
                            <<"DecimalLiteral", 1, 0, 0>>, <<"DecimalLiteral", 0, 9, -149>>}}
    \cup {U32(h, U16Modulus - 1 - i) : h \in {0, 1}, i \in 0..MaxSmallImm}

cell_raw ==
    /\ mc_built = <<"none">>
    /\ \E w \in RawWords :
        /\ mc_built' = <<"raw", w>>
        /\ mc' = raw(w)
    /\ UNCHANGED <<mc_decoded, codegen_vars>>

cell_plain_inst ==
    /\ mc_built = <<"none">>
    /\ \E inst \in OpCodes :
        /\ mc_built' = <<"plain_inst", inst>>
        /\ mc' = plain_inst(inst)
    /\ UNCHANGED <<mc_decoded, codegen_vars>>

cell_with_data ==
    /\ mc_built = <<"none">>
    /\ \E inst \in OpCodes : \E d \in U16Samples :
        /\ mc_built' = <<"with_data", inst, d>>
        /\ mc' = with_data(inst, d)
    /\ UNCHANGED <<mc_decoded, codegen_vars>>

cell_get_inst ==
    /\ mc_built # <<"none">>
    /\ mc_decoded = <<"none">>
    /\ \E r \in get_inst(mc) : mc_decoded' = r
    /\ UNCHANGED <<mc_built, mc, codegen_vars>>

NextCell ==
    \/ cell_raw
    \/ cell_plain_inst
    \/ cell_with_data
    \/ cell_get_inst

SpecCell == Init /\ [][NextCell]_vars

----------------------------------------------------------------------------
(* Reading the result back: the tree read, the instruction stream decoded. *)

\* The function read last in tree a, and the statement read last in it.
LastFunction(a) == a.functions[Len(a.functions)]

LastStatement(a) == LastFunction(a).statements[Len(LastFunction(a).statements)]

GlobalNames == DOMAIN program.data.global_symbols

IsReturn(s) == s[1] = "Return"

HasReturnStatement(f) == \E i \in 1..Len(f.statements) : IsReturn(f.statements[i])

UniqueIdents(q) ==
    \A i, j \in 1..Len(q) : i # j => q[i].ident # q[j].ident

RECURSIVE Instructions(_, _)
\* The instructions of code from word i (counted from 1) on, decoded with
\* get_inst: <<opcode, immediate>>, and for ConstF32 <<opcode, immediate, word>>
\* with the raw word that follows it.
Instructions(code, i) ==
    IF i > Len(code) THEN <<>>
    ELSE LET d == CHOOSE r \in get_inst(code[i]) : TRUE
         IN  IF d[1] = "ConstF32" /\ i < Len(code)
             THEN <<d \o <<code[i + 1].data>>>> \o Instructions(code, i + 2)
             ELSE <<d>> \o Instructions(code, i + 1)

\* A step that reads a statement, and one that lowers it without a panic.
StatementRead == pc = "statements" /\ ast' # ast

StatementLowered == StatementRead /\ pc' = "statements"

\* The words a step appends to the instruction stream.
Emitted == SubSeq(program'.code, Len(program.code) + 1, Len(program'.code))

\* The IEEE-754 single-precision bit patterns of 3.5 (0x40600000) and of
\* -1.0 (0xBF800000), as halves.
BitsOf3p5 == U32(16480, 0)
BitsOfMinusOne == U32(49024, 0)

\* The float opcode named after a binary operator.
FloatOpcode(op) ==
    CASE op = "Add" -> "AddF32"
      [] op = "Sub" -> "SubF32"
      [] op = "Mul" -> "MulF32"
      [] op = "Div" -> "DivF32"

RECURSIVE PostOrder(_, _, _, _)
\* The instructions expected of expression e, operands first and left to
\* right, then the operator; a symbol loads from the local table when it is
\* there and from the global table otherwise.
PostOrder(e, locals, globals, funcs) ==
    CASE e[1] = "BinaryOp" ->
            PostOrder(e[3], locals, globals, funcs)
            \o PostOrder(e[4], locals, globals, funcs)
            \o << <<FloatOpcode(e[2]), 0>> >>
      [] e[1] = "UnaryOp" ->
            PostOrder(e[3], locals, globals, funcs)
            \o << <<"ConstF32", 0, BitsOfMinusOne>>, <<"MulF32", 0>> >>
      [] e[1] = "Literal" -> << <<"ConstF32", 0, BitsOf3p5>> >>
      [] e[1] = "Symbol" ->
            IF e[2] \in DOMAIN locals
            THEN << <<"Load4", locals[e[2]].offset>> >>
            ELSE << <<"Load4Global", globals[e[2]].offset>> >>
      [] e[1] = "FuncCall" -> << <<"Call", funcs[e[2]].address>> >>

RECURSIVE ExprWords(_)
\* The number of words the lowering of e takes.
ExprWords(e) ==
    CASE e[1] = "BinaryOp" -> ExprWords(e[3]) + ExprWords(e[4]) + 1
      [] e[1] = "UnaryOp" -> ExprWords(e[3]) + 3
      [] e[1] = "Literal" -> 2
      [] OTHER -> 1

\* The number of words of statement s: its expression, and the store to a
\* global or the return instruction.
StatementWords(s) ==
    IF IsReturn(s) THEN ExprWords(s[2]) + 1
    ELSE ExprWords(s[3]) + (IF s[2] \in GlobalNames THEN 1 ELSE 0)

\* The number of words of a function read to its end.
FunctionWords(f) ==
    SumSeq([i \in 1..Len(f.statements) |-> StatementWords(f.statements[i])])
    + (IF HasReturnStatement(f) THEN 0 ELSE 2)

\* The index (from 0) of the first word of the k-th function read.
FirstWordOf(k) == SumSeq([j \in 1..(k - 1) |-> FunctionWords(ast.functions[j])])

RECURSIVE DistinctLocalTargets(_, _)
\* The names the assignments of statements q introduce as locals, in the
\* order of their first assignment, after those of seen.
DistinctLocalTargets(q, seen) ==
    IF q = <<>> THEN seen
    ELSE LET s == Head(q)
             new == ~IsReturn(s) /\ s[2] \notin GlobalNames
                    /\ \A i \in 1..Len(seen) : seen[i] # s[2]
         IN  DistinctLocalTargets(Tail(q), IF new THEN Append(seen, s[2]) ELSE seen)

\* The number of assignments of f whose target is not a global.
LocalAllocations(f) ==
    Cardinality({i \in 1..Len(f.statements) :
                    ~IsReturn(f.statements[i]) /\ f.statements[i][2] \notin GlobalNames})

----------------------------------------------------------------------------
(* The claims. *)

\* The layout of the global section: the i-th in-parameter at 4(i-1), the
\* j-th out-parameter at 4(n+j-1), static_section_size 4(n+m).
GlobalLayout ==
    LET P == ast.in_parameters
        Q == ast.out_parameters
        g == program.data.global_symbols
    IN  /\ \A i \in 1..Len(P) :
              P[i].ident \in DOMAIN g /\ g[P[i].ident].offset = 4 * (i - 1)
        /\ \A j \in 1..Len(Q) :
              Q[j].ident \in DOMAIN g /\ g[Q[j].ident].offset = 4 * (Len(P) + j - 1)
        /\ program.data.static_section_size = 4 * (Len(P) + Len(Q))

\* C1 as stated: when the in-parameter names are unique within their list and
\* the out-parameter names within theirs, the program codegen returns has the
\* global layout.
C1_LayoutWhenUniqueWithinLists ==
    (pc = "done" /\ UniqueIdents(ast.in_parameters) /\ UniqueIdents(ast.out_parameters))
        => GlobalLayout

\* C1 amended: when the names of the in-parameters and the out-parameters are
\* pairwise distinct across both lists, the program codegen returns has the
\* global layout.
C1_LayoutWhenUniqueAcrossLists ==
    (pc = "done" /\ UniqueIdents(ast.in_parameters \o ast.out_parameters))
        => GlobalLayout

\* Two in-parameters and one out-parameter, all of different names, compiled.
C1_Witness ==
    /\ pc = "done"
    /\ Len(ast.in_parameters) = 2
    /\ Len(ast.out_parameters) = 1
    /\ UniqueIdents(ast.in_parameters \o ast.out_parameters)

\* C2: a call of a function whose generation has begun (an earlier function
\* or the enclosing one) never ends in the failure to resolve the callee.
C2_BegunCalleeResolves ==
    (pc = "panicked" /\ panic[1] = "called Option::unwrap() on a None value")
        => panic[2] \notin {ast.functions[k].ident : k \in 1..Len(ast.functions)}

\* C3: in the function being generated, the k-th distinct local name has
\* offset 4(k-1), and the local table holds these names only.
C3_KthLocalOffset ==
    pc = "statements" =>
        LET names == DistinctLocalTargets(LastFunction(ast).statements, <<>>)
        IN  /\ DOMAIN func_meta.symbols = {names[k] : k \in 1..Len(names)}
            /\ \A k \in 1..Len(names) : func_meta.symbols[names[k]].offset = 4 * (k - 1)

\* C4: a reference to a name that is neither a local nor a global ends the
\* compilation in an error value that names it, not in a panic, and the
\* stream holds nothing of the failing statement.
C4_UnresolvedSymbolIsErrorValue ==
    panic[1] = "Unknown symbol" =>
        /\ pc = "error"
        /\ Len(program.code) =
              FirstWordOf(Len(ast.functions))
              + SumSeq([i \in 1..(Len(LastFunction(ast).statements) - 1) |->
                           StatementWords(LastFunction(ast).statements[i])])

\* C5: a function read to its end has (Void, Ret) as its last two
\* instructions exactly when it has no return statement, and the immediate
\* of that Ret is 4 times the number of its local allocations.
C5_ImplicitReturn ==
    (pc \in {"functions", "done"} /\ Len(ast.functions) >= 1) =>
        LET f == LastFunction(ast)
            insts == Instructions(program.code,
                                  program.data.functions[f.ident].address + 1)
            n == Len(insts)
            pair == n >= 2 /\ insts[n - 1] = <<"Void", 0>> /\ insts[n][1] = "Ret"
        IN  /\ pair <=> ~HasReturnStatement(f)
            /\ ~HasReturnStatement(f) => insts[n] = <<"Ret", 4 * LocalAllocations(f)>>

\* A function of two local allocations and no return statement, read to its end.
C5_Witness ==
    /\ pc = "functions"
    /\ Len(ast.functions) >= 1
    /\ ~HasReturnStatement(LastFunction(ast))
    /\ LocalAllocations(LastFunction(ast)) = 2

\* C6: the instructions a statement's binary operation emits are those of its
\* left operand, those of its right operand, then the one float opcode of
\* its operator, at every depth; a return statement adds Ret and nothing else.
C6_OperandsThenOperator ==
    [][(StatementLowered /\ StatementExpr(LastStatement(ast'))[1] = "BinaryOp") =>
          LET st == LastStatement(ast')
              insts == Instructions(Emitted, 1)
              expected == PostOrder(StatementExpr(st), func_meta.symbols,
                                    program.data.global_symbols, program.data.functions)
          IN  /\ Len(insts) >= Len(expected)
              /\ SubSeq(insts, 1, Len(expected)) = expected
              /\ IsReturn(st) => insts = expected \o << <<"Ret", stack_offset>> >>
       ]_vars

\* A return of a subtraction whose left operand is a binary operation and
\* whose right operand is not, lowered.
C6_Witness ==
    /\ pc = "statements"
    /\ Len(LastFunction(ast).statements) >= 1
    /\ LET st == LastStatement(ast)
       IN  /\ IsReturn(st)
           /\ st[2][1] = "BinaryOp"
           /\ st[2][2] = "Sub"
           /\ st[2][3][1] = "BinaryOp"
           /\ st[2][4][1] # "BinaryOp"

\* C7: get_inst of with_data(op, d) is (op, d) and get_inst of plain_inst(op)
\* is (op, 0); the opcode is the low half of the word and the immediate the
\* high half.
C7_EncodeDecode ==
    /\ mc_built[1] = "with_data" =>
          /\ mc.data = U32(mc_built[3], OpCodeAsU16(mc_built[2]))
          /\ mc_decoded # <<"none">> => mc_decoded = <<mc_built[2], mc_built[3]>>
    /\ mc_built[1] = "plain_inst" =>
          /\ mc.data = U32(0, OpCodeAsU16(mc_built[2]))
          /\ mc_decoded # <<"none">> => mc_decoded = <<mc_built[2], 0>>

\* The last opcode with the largest immediate, built and decoded.
C7_Witness ==
    /\ mc_built = <<"with_data", "JmpIf", U16Modulus - 1>>
    /\ mc_decoded # <<"none">>

\* C8: with unique function names, the address of every function, in the
\* function table once it is read to its end and in its FuncMeta before, is
\* the index of its first word in the stream, in every state from the
\* beginning of its generation on.
C8_AddressIsFirstWord ==
    UniqueIdents(ast.functions) =>
        \A k \in 1..Len(ast.functions) :
            IF k = Len(ast.functions) /\ pc \in {"statements", "panicked"}
            THEN func_meta.address = FirstWordOf(k)
            ELSE /\ ast.functions[k].ident \in DOMAIN program.data.functions
                 /\ program.data.functions[ast.functions[k].ident].address = FirstWordOf(k)
                 /\ FirstWordOf(k) < Len(program.code)

\* Two functions of different names compiled, the second one calling the first.
C8_Witness ==
    /\ pc = "done"
    /\ Len(ast.functions) = 2
    /\ UniqueIdents(ast.functions)
    /\ Len(ast.functions[2].statements) >= 1
    /\ program.data.functions[ast.functions[2].ident].address > 0

\* C9: an entry of the local table is never changed by a later statement of
\* the function, and an assignment to a name already in the table does not
\* grow the accumulated local size.
C9_LocalEntryNeverChanges ==
    [][StatementLowered =>
          /\ \A n \in DOMAIN func_meta.symbols :
                n \in DOMAIN func_meta'.symbols
                /\ func_meta'.symbols[n] = func_meta.symbols[n]
          /\ (~IsReturn(LastStatement(ast'))
              /\ LastStatement(ast')[2] \in DOMAIN func_meta.symbols)
                => stack_offset' = stack_offset
       ]_vars

\* The local and the global names are disjoint: in the function being
\* generated and in every function of the function table.
LocalsDisjointFromGlobals ==
    /\ DOMAIN func_meta.symbols \cap GlobalNames = {}
    /\ \A f \in DOMAIN program.data.functions :
          DOMAIN program.data.functions[f].symbols \cap GlobalNames = {}

\* C10: local and global names stay disjoint; an assignment to a global
\* emits Mov4Global with its offset last and allocates no local; a symbol
\* reference emits Load4 for a name that is no global and Load4Global for a
\* global.
C10_OneTablePerName ==
    [][/\ LocalsDisjointFromGlobals'
       /\ StatementLowered =>
             LET st == LastStatement(ast')
                 insts == Instructions(Emitted, 1)
                 g == program.data.global_symbols
             IN  /\ (~IsReturn(st) /\ st[2] \in DOMAIN g) =>
                        /\ insts[Len(insts)] = <<"Mov4Global", g[st[2]].offset>>
                        /\ func_meta' = func_meta
                        /\ stack_offset' = stack_offset
                 /\ StatementExpr(st)[1] = "Symbol" =>
                        insts[1] = IF StatementExpr(st)[2] \in DOMAIN g
                                   THEN <<"Load4Global", g[StatementExpr(st)[2]].offset>>
                                   ELSE <<"Load4",
                                          func_meta.symbols[StatementExpr(st)[2]].offset>>
      ]_vars

\* In a function with a local, an assignment of that local to a global, lowered.
C10_Witness ==
    /\ pc = "statements"
    /\ Len(LastFunction(ast).statements) >= 2
    /\ LET st == LastStatement(ast)
       IN  /\ ~IsReturn(st)
           /\ st[2] \in GlobalNames
           /\ st[3][1] = "Symbol"
           /\ st[3][2] \in DOMAIN func_meta.symbols

====
